---- MODULE Spec2Model ----
(***************************************************************************)
(* sub_sniaX (src/main.go): subdomain enumeration by AXFR, CNAME chaining  *)
(* and SNI probing.  One goroutine per input domain, one nested goroutine  *)
(* per name server, a shared stdout and an optional shared output file.    *)
(*                                                                         *)
(* Strings are sequences of one-character strings, so that prefix and      *)
(* suffix operations and line framing are computed, not assumed.           *)
(***************************************************************************)
EXTENDS Integers, Sequences, FiniteSets, Bags, TLC

VARIABLES
    flags,      \* the parsed command line: -f (file and its lines), -d, -o
    env,        \* what the network and the file system may answer (fixed during a run)
    mainpc,     \* main's position
    domains,    \* main's local `domains`
    spawned,    \* iterations done of main's `for _, domain := range domains`
    mainWg,     \* main's sync.WaitGroup counter
    output,     \* main's `output` *os.File: "nil", "open" or "closed"
    file,       \* the output file: its bytes and the handle's offset
    stdout,     \* bag of hostname lines printed on standard output
    task,       \* per input domain: the goroutine running enumerateSubdomains
    prober      \* per (domain, name server): the goroutine running attemptAXFR

vars == <<flags, env, mainpc, domains, spawned, mainWg, output, file, stdout,
          task, prober>>

-----------------------------------------------------------------------------
(* Bounds of the model *)

MaxDomains == 2     \* input domains of a run
MaxNS == 2          \* name servers a lookup returns
MaxAnswers == 2     \* answers in one DNS response (single-probe runs)

(* Program constants *)

MaxAttempts == 3    \* for attempts := 0; attempts < 3; attempts++

-----------------------------------------------------------------------------
(* strings *)

Min(a, b) == IF a < b THEN a ELSE b

\* strings.HasPrefix
HasPrefix(s, p) == Len(s) >= Len(p) /\ SubSeq(s, 1, Len(p)) = p

\* strings.TrimPrefix
TrimPrefix(s, p) == IF HasPrefix(s, p) THEN SubSeq(s, Len(p) + 1, Len(s)) ELSE s

\* strings.TrimSuffix
TrimSuffix(s, p) ==
    IF Len(s) >= Len(p) /\ SubSeq(s, Len(s) - Len(p) + 1, Len(s)) = p
    THEN SubSeq(s, 1, Len(s) - Len(p))
    ELSE s

\* A character is a one-character string when it is ASCII; a character outside
\* ASCII is the name of its code point, as "U+00E9", since a string literal of
\* this module holds ASCII only.
\* unicode.IsSpace, the white space strings.TrimSpace cuts: U+0009 to U+000D,
\* the space, U+0085, U+00A0, and the 17 code points of category Z beyond
AsciiSpace == {"\t", "\n", "", "\f", "\r", " "}
WhiteSpace ==
    AsciiSpace \cup
    {"U+0085", "U+00A0", "U+1680",
     "U+2000", "U+2001", "U+2002", "U+2003", "U+2004", "U+2005", "U+2006",
     "U+2007", "U+2008", "U+2009", "U+200A",
     "U+2028", "U+2029", "U+202F", "U+205F", "U+3000"}

RECURSIVE TrimLeft(_)
TrimLeft(s) == IF s # <<>> /\ Head(s) \in WhiteSpace THEN TrimLeft(Tail(s)) ELSE s

RECURSIVE TrimRight(_)
TrimRight(s) ==
    IF s # <<>> /\ s[Len(s)] \in WhiteSpace THEN TrimRight(SubSeq(s, 1, Len(s) - 1)) ELSE s

\* strings.TrimSpace
TrimSpace(s) == TrimRight(TrimLeft(s))

Https == <<"h", "t", "t", "p", "s", ":", "/", "/">>
Http == <<"h", "t", "t", "p", ":", "/", "/">>
Www == <<"w", "w", "w", ".">>

normalizeDomain(domain) ==
    LET d1 == IF HasPrefix(domain, Https) THEN TrimPrefix(domain, Https)
              ELSE IF HasPrefix(domain, Http) THEN TrimPrefix(domain, Http)
              ELSE domain
    IN IF HasPrefix(d1, Www) THEN TrimPrefix(d1, Www) ELSE d1

RECURSIVE NonBlank(_)
\* the scanner loop of loadDomains: trimmed lines, blank ones dropped
NonBlank(lines) ==
    IF lines = <<>> THEN <<>>
    ELSE LET domain == TrimSpace(Head(lines))
         IN (IF domain # <<>> THEN <<domain>> ELSE <<>>) \o NonBlank(Tail(lines))

\* os.Open (line 59) or os.Create (line 35) of a path fails
Denied(path) == path \in env.denied

\* the scanner of an opened -f file ends on an error (line 72): a failed read,
\* or a line longer than bufio.MaxScanTokenSize
ScanFails(path) == path \in env.unreadable

\* the domains loadDomains returns, or fatal: it ended the process in
\* log.Fatalf (lines 61 and 73)
loadDomains(domainFile, singleDomain) ==
    IF domainFile.path # <<>>
    THEN IF Denied(domainFile.path) \/ ScanFails(domainFile.path)
         THEN [fatal |-> TRUE, domains |-> <<>>]
         ELSE [fatal |-> FALSE, domains |-> NonBlank(domainFile.lines)]
    ELSE IF singleDomain # <<>> THEN [fatal |-> FALSE, domains |-> <<singleDomain>>]
    ELSE [fatal |-> FALSE, domains |-> <<>>]

-----------------------------------------------------------------------------
(* the output sink *)

\* a write that leaves the offset where it was, as writers that each keep
\* their own position in the file would
WriteStringInPlace(f, s) ==
    [data |-> SubSeq(f.data, 1, f.off) \o s
                \o SubSeq(f.data, f.off + Len(s) + 1, Len(f.data)),
     off |-> f.off]

\* (*os.File).WriteString: the bytes go to the handle's offset, which advances
WriteString(f, s) ==
    [data |-> SubSeq(f.data, 1, f.off) \o s
                \o SubSeq(f.data, f.off + Len(s) + 1, Len(f.data)),
     off |-> f.off + Len(s)]

\* fmt.Println(" -", subdomain)
Println(out, subdomain) == out (+) SetToBag({[fmt |-> "host", name |-> subdomain]})

\* fmt.Println(" - SNI detected:", addr)
PrintlnSNI(out, addr) == out (+) SetToBag({[fmt |-> "sni", name |-> addr]})

\* a writer that skips a hostname the file already holds
WriteLineFileOnce(f, out, subdomain) ==
    LET s == subdomain \o <<"\n">>
        held == \E i \in 1..Len(f.data) :
                    /\ i = 1 \/ f.data[i - 1] = "\n"
                    /\ i + Len(s) - 1 <= Len(f.data)
                    /\ SubSeq(f.data, i, i + Len(s) - 1) = s
    IN IF out # "nil" /\ ~held THEN WriteString(f, s) ELSE f

\* one iteration of writeOutput's loop
WriteLineFile(f, out, subdomain) ==
    IF out # "nil" THEN WriteString(f, subdomain \o <<"\n">>) ELSE f

-----------------------------------------------------------------------------
(* the DNS message codec, as attemptAXFR uses it *)

\* A buffer read from the connection: malformed (Unpack fails) or a message
\* with its answers, each a resource header [name, type]; an unpacked name
\* always ends with "."
Buf(malformed, answers) == [malformed |-> malformed, answers |-> answers]

\* no test of the record type
IsSurfacedAnyType(answer) == TRUE

\* the test of line 184 on one answer
IsSurfaced(answer) == answer.type = "A" \/ answer.type = "CNAME"

\* an off-by-one loop condition
LoopContinuesOneMore(attempts) == attempts <= MaxAttempts

\* the loop condition of line 160
LoopContinues(attempts) == attempts < MaxAttempts

-----------------------------------------------------------------------------
(* the state of the goroutines *)

TaskIds == 1..MaxDomains
NsIds == 1..MaxNS

IdleTask ==
    [pc |-> "idle", domain |-> <<>>, nsErr |-> FALSE, ns |-> <<>>,
     launched |-> 0, wg |-> 0,
     cname |-> <<>>, cnames |-> {}, chain |-> <<>>, lookups |-> 0,
     sidx |-> 0, sni |-> <<>>, open |-> 0, cw |-> 0, sw |-> 0, printed |-> FALSE]

NoProber ==
    [pc |-> "none", ns |-> <<>>, conn |-> "none", attempts |-> 0,
     result |-> <<>>, io |-> <<>>, decoded |-> <<>>, resp |-> <<>>, exit |-> "none",
     wi |-> 0, printed |-> FALSE]

EmptyFile == [data |-> <<>>, off |-> 0]

\* the state when main starts, for a command line and a network
Start(fl, e) ==
    /\ flags = fl
    /\ env = e
    /\ mainpc = "load"
    /\ domains = <<>>
    /\ spawned = 0
    /\ mainWg = 0
    /\ output = "nil"
    /\ file = EmptyFile
    /\ stdout = EmptyBag
    /\ task = [d \in TaskIds |-> IdleTask]
    /\ prober = [d \in TaskIds |-> [k \in NsIds |-> NoProber]]

-----------------------------------------------------------------------------
(* main *)

\* lines 26-40: loadDomains, the usage exit, os.Create of the -o file; a -f
\* file that cannot be opened or read to its end and a -o file that cannot be
\* created (line 37) end the process in log.Fatalf
MainLoad ==
    /\ mainpc = "load"
    /\ LET loaded == loadDomains(flags.f, flags.d)
       IN IF loaded.fatal
          THEN /\ mainpc' = "fatal"
               /\ UNCHANGED <<domains, output>>
          ELSE /\ domains' = loaded.domains
               /\ IF Len(domains') = 0
                  THEN /\ mainpc' = "usage"
                       /\ UNCHANGED output
                  ELSE IF flags.o # <<>> /\ Denied(flags.o)
                  THEN /\ mainpc' = "fatal"
                       /\ UNCHANGED output
                  ELSE /\ mainpc' = "spawn"
                       /\ output' = IF flags.o # <<>> THEN "open" ELSE "nil"
    /\ UNCHANGED <<flags, env, spawned, mainWg, file, stdout, task, prober>>

\* a goroutine started with its Add left to the goroutine itself: the counter
\* does not count it yet
AddLate(counter) == counter

\* wg.Add(1) (lines 44 and 106)
Add(counter) == counter + 1

\* lines 43-52: one iteration of the loop: wg.Add(1); go func(domain)
MainSpawn ==
    /\ mainpc = "spawn"
    /\ spawned < Len(domains)
    /\ spawned' = spawned + 1
    /\ mainWg' = Add(mainWg)
    /\ task' = [task EXCEPT ![spawned + 1].pc = "start"]
    /\ mainpc' = IF spawned' = Len(domains) THEN "wait" ELSE "spawn"
    /\ UNCHANGED <<flags, env, domains, output, file, stdout, prober>>

\* a Wait that returns while one goroutine is still to call Done
WaitReturnsEarly(counter) == counter <= 1

\* wg.Wait() has returned when the counter is zero
WaitReturns(counter) == counter = 0

\* line 53 and the deferred output.Close(): main returns, the process exits
MainWait ==
    /\ mainpc = "wait"
    /\ WaitReturns(mainWg)
    /\ mainpc' = "exit"
    /\ output' = IF output = "open" THEN "closed" ELSE output
    /\ UNCHANGED <<flags, env, domains, spawned, mainWg, file, stdout, task, prober>>

\* goroutines run while the process lives
Alive == mainpc \in {"spawn", "wait"}

-----------------------------------------------------------------------------
(* enumerateSubdomains: name servers and the AXFR fan-out *)

\* net.LookupNS: what the resolver may answer for a domain
LookupNS(domain) ==
    IF domain \in DOMAIN env.ns THEN env.ns[domain]
    ELSE {[err |-> TRUE, hosts |-> <<>>]}

\* a lookup failure that is logged and not returned from: the phases run on
\* with no name server
NsFailedGoesOn(t, domain) == [t EXCEPT !.pc = "wait", !.domain = domain, !.nsErr = TRUE]

\* lines 99-102: the lookup failed: log and return
NsFailed(t, domain) == [t EXCEPT !.pc = "done", !.domain = domain, !.nsErr = TRUE]

\* lines 48-50 and 98-102: normalize, look the name servers up; on failure the
\* task returns and its deferred wg.Done() runs
EnumLookupNS(d) ==
    /\ Alive
    /\ task[d].pc = "start"
    /\ LET domain == normalizeDomain(domains[d])
       IN \E ans \in LookupNS(domain) :
            IF ans.err
            THEN /\ task' = [task EXCEPT ![d] = NsFailed(@, domain)]
                 /\ mainWg' = mainWg - 1
            ELSE /\ task' = [task EXCEPT
                                ![d].pc = IF ans.hosts = <<>> THEN "wait" ELSE "fanout",
                                ![d].domain = domain,
                                ![d].ns = ans.hosts]
                 /\ UNCHANGED mainWg
    /\ UNCHANGED <<flags, env, mainpc, domains, spawned, output, file, stdout, prober>>

\* lines 105-116: one iteration of the loop: wg.Add(1); go func(ns.Host)
EnumSpawnAXFR(d) ==
    /\ Alive
    /\ task[d].pc = "fanout"
    /\ LET k == task[d].launched + 1
       IN /\ task' = [task EXCEPT
                        ![d].launched = k,
                        ![d].wg = Add(@),
                        ![d].pc = IF k = Len(task[d].ns) THEN "wait" ELSE "fanout"]
          /\ prober' = [prober EXCEPT ![d][k].pc = "dial", ![d][k].ns = task[d].ns[k]]
    /\ UNCHANGED <<flags, env, mainpc, domains, spawned, mainWg, output, file, stdout>>

\* line 117: wg.Wait() returns
EnumWait(d) ==
    /\ Alive
    /\ task[d].pc = "wait"
    /\ WaitReturns(task[d].wg)
    /\ task' = [task EXCEPT ![d].pc = "cname"]
    /\ UNCHANGED <<flags, env, mainpc, domains, spawned, mainWg, output, file, stdout,
                   prober>>

-----------------------------------------------------------------------------
(* attemptAXFR *)

\* what a name server does to a session: env.axfr[ns].connect holds the
\* possible outcomes of net.Dial and msg.Pack (lines 132-158) and
\* env.axfr[ns].io[i] those of the conn.Write and conn.Read of iteration i
\* (lines 161-174).  A server the network does not know refuses the dial.
ConnectOutcomes(ns) ==
    IF ns \in DOMAIN env.axfr THEN env.axfr[ns].connect ELSE {"dialErr"}

\* a dial failure that is logged and not returned from: the loop runs on the
\* missing connection
DialFailedGoesOn(p) == [p EXCEPT !.pc = "loop", !.exit = "dial", !.io = Append(@, "dialErr")]

\* lines 133-136: the dial failed: log and return the empty result
DialFailed(p) == [p EXCEPT !.pc = "output", !.exit = "dial", !.io = Append(@, "dialErr")]

\* lines 131-158: dial, build the query, pack it.  A failed dial returns the
\* empty result with no connection; a failed pack returns it and the deferred
\* conn.Close() runs
AxfrConnect(d, k) ==
    /\ Alive
    /\ prober[d][k].pc = "dial"
    /\ \E o \in ConnectOutcomes(prober[d][k].ns) :
         prober' = [prober EXCEPT ![d][k] =
            CASE o = "dialErr" -> DialFailed(@)
              [] o = "packErr" ->
                    [@ EXCEPT !.pc = "output", !.exit = "pack", !.conn = "closed",
                              !.io = @ \o <<"dial", "close">>]
              [] OTHER ->
                    [@ EXCEPT !.pc = "loop", !.conn = "open",
                              !.io = Append(@, "dial")]]
    /\ UNCHANGED <<flags, env, mainpc, domains, spawned, mainWg, output, file, stdout,
                   task>>

NoBuf == Buf(TRUE, <<>>)
WriteErr == [kind |-> "writeErr", buf |-> NoBuf]
ReadErr == [kind |-> "readErr", buf |-> NoBuf]
Read(b) == [kind |-> "read", buf |-> b]

AttemptOutcomes(ns, attempts) ==
    IF ns \in DOMAIN env.axfr /\ attempts + 1 \in DOMAIN env.axfr[ns].io
    THEN env.axfr[ns].io[attempts + 1]
    ELSE {ReadErr}

\* a return with no deferred conn.Close(): the connection stays open
ReturnedLeavesOpen(p, why) == [p EXCEPT !.pc = "output", !.exit = why]

\* the function returns (lines 164, 191 or after the break of 180): the
\* deferred conn.Close() of line 137 runs and the goroutine goes on to
\* writeOutput
Returned(p, why) ==
    [p EXCEPT !.pc = "output", !.exit = why, !.conn = "closed",
              !.io = Append(@, "close")]

\* the end of an iteration that did not leave the loop: attempts++ and the test
NextIteration(p) ==
    LET q == [p EXCEPT !.attempts = @ + 1, !.pc = "loop"]
    IN IF LoopContinues(q.attempts) THEN q ELSE Returned(q, "exhausted")

\* a query sent before the loop only: the later iterations just read
SendQueryOnce(p) == IF p.attempts = 0 THEN [p EXCEPT !.io = Append(@, "write")] ELSE p

\* line 161: conn.Write(buf) succeeded
SendQuery(p) == [p EXCEPT !.io = Append(@, "write")]

\* a failed write that returns nothing of what the session gathered
WriteFailedDropsNames(p) ==
    Returned([p EXCEPT !.io = Append(@, "writeErr"), !.result = <<>>], "write")

\* lines 161-165: conn.Write failed: log and return the result so far
WriteFailed(p) == Returned([p EXCEPT !.io = Append(@, "writeErr")], "write")

\* line 161: one conn.Write: it fails and the function returns, or the query
\* is sent and the goroutine goes on to conn.Read
AxfrSend(d, k) ==
    /\ Alive
    /\ prober[d][k].pc = "loop"
    /\ \E o \in AttemptOutcomes(prober[d][k].ns, prober[d][k].attempts) :
         prober' = [prober EXCEPT ![d][k] =
                        IF o.kind = "writeErr" THEN WriteFailed(@)
                        ELSE [SendQuery(@) EXCEPT !.pc = "read"]]
    /\ UNCHANGED <<flags, env, mainpc, domains, spawned, mainWg, output, file, stdout,
                   task>>

\* a failed read that ends the session instead of backing off
ReadFailedAborts(p) == Returned([p EXCEPT !.io = Append(@, "readErr")], "read")

\* lines 169-172: conn.Read failed or timed out: log, and into time.Sleep(2 *
\* time.Second)
ReadFailed(p) == [p EXCEPT !.io = Append(@, "readErr"), !.pc = "sleep"]

\* lines 176-182: the response unpacked: on to the loop over its answers, or,
\* when it has none, to the next iteration
Decoded(p, buf) ==
    LET q == [p EXCEPT !.io = @ \o <<"read", "unpack">>,
                       !.decoded = Append(@, buf),
                       !.resp = buf.answers,
                       !.pc = "answers"]
    IN IF buf.answers = <<>> THEN NextIteration(q) ELSE q

\* lines 167-181: conn.Read returns, with an error or with a buffer that
\* resp.Unpack refuses (break, and the return of line 191) or accepts
AxfrRead(d, k) ==
    /\ Alive
    /\ prober[d][k].pc = "read"
    /\ \E o \in AttemptOutcomes(prober[d][k].ns, prober[d][k].attempts) :
         /\ o.kind # "writeErr"
         /\ prober' = [prober EXCEPT ![d][k] =
                CASE o.kind = "readErr" -> ReadFailed(@)
                  [] o.kind = "read" /\ o.buf.malformed ->
                        Returned([@ EXCEPT !.io = @ \o <<"read", "unpackErr">>], "decode")
                  [] OTHER -> Decoded(@, o.buf)]
    /\ UNCHANGED <<flags, env, mainpc, domains, spawned, mainWg, output, file, stdout,
                   task>>

\* lines 172-173: time.Sleep has returned: continue
AxfrSleep(d, k) ==
    /\ Alive
    /\ prober[d][k].pc = "sleep"
    /\ prober' = [prober EXCEPT ![d][k] = NextIteration([@ EXCEPT !.io = Append(@, "sleep")])]
    /\ UNCHANGED <<flags, env, mainpc, domains, spawned, mainWg, output, file, stdout,
                   task>>

\* lines 183-189: one iteration of the loop over resp.Answers: an A or CNAME
\* answer is appended and printed; after the last answer, the next iteration
\* of the attempts loop
AxfrAnswer(d, k) ==
    /\ Alive
    /\ prober[d][k].pc = "answers"
    /\ LET answer == Head(prober[d][k].resp)
           subdomain == TrimSuffix(answer.name, <<".">>)
           q == [prober[d][k] EXCEPT
                    !.resp = Tail(@),
                    !.result = IF IsSurfaced(answer) THEN Append(@, subdomain) ELSE @]
       IN /\ prober' = [prober EXCEPT ![d][k] =
                            IF q.resp = <<>> THEN NextIteration(q) ELSE q]
          /\ stdout' = IF IsSurfaced(answer) THEN Println(stdout, subdomain) ELSE stdout
    /\ UNCHANGED <<flags, env, mainpc, domains, spawned, mainWg, output, file, task>>

\* line 114, writeOutput, line 251 of one iteration of its loop: the line on
\* stdout; with no output file that is the whole iteration
ProberPrint(d, k) ==
    /\ Alive
    /\ prober[d][k].pc = "output"
    /\ ~prober[d][k].printed
    /\ prober[d][k].wi < Len(prober[d][k].result)
    /\ stdout' = Println(stdout, prober[d][k].result[prober[d][k].wi + 1])
    /\ prober' = IF output # "nil" THEN [prober EXCEPT ![d][k].printed = TRUE]
                 ELSE [prober EXCEPT ![d][k].wi = @ + 1]
    /\ UNCHANGED <<flags, env, mainpc, domains, spawned, mainWg, output, file, task>>

\* lines 252-254 of the iteration: the line in the file
ProberWrite(d, k) ==
    /\ Alive
    /\ prober[d][k].pc = "output"
    /\ prober[d][k].printed
    /\ file' = WriteLineFile(file, output, prober[d][k].result[prober[d][k].wi + 1])
    /\ prober' = [prober EXCEPT ![d][k].wi = @ + 1, ![d][k].printed = FALSE]
    /\ UNCHANGED <<flags, env, mainpc, domains, spawned, mainWg, output, stdout, task>>

\* writeOutput has returned: the goroutine ends and its deferred wg.Done() runs
ProberDone(d, k) ==
    /\ Alive
    /\ prober[d][k].pc = "output"
    /\ ~prober[d][k].printed
    /\ prober[d][k].wi = Len(prober[d][k].result)
    /\ prober' = [prober EXCEPT ![d][k].pc = "done"]
    /\ task' = [task EXCEPT ![d].wg = @ - 1]
    /\ UNCHANGED <<flags, env, mainpc, domains, spawned, mainWg, output, file, stdout>>

-----------------------------------------------------------------------------
(* cnameChain *)

\* net.LookupCNAME against the records of the run
LookupCNAME(host) ==
    IF host \in DOMAIN env.cname THEN [err |-> FALSE, cname |-> env.cname[host]]
    ELSE [err |-> TRUE, cname |-> <<>>]

\* lines 195-201: the first lookup; on failure the empty result is returned
CnameFirst(d) ==
    /\ Alive
    /\ task[d].pc = "cname"
    /\ LET r == LookupCNAME(task[d].domain)
       IN task' = [task EXCEPT ![d].lookups = @ + 1,
                               ![d].cname = r.cname,
                               ![d].pc = IF r.err THEN "writeCname" ELSE "chain"]
    /\ UNCHANGED <<flags, env, mainpc, domains, spawned, mainWg, output, file, stdout,
                   prober>>

\* a walk with no visited set
FollowsUnseen(cname, domain, cnames) == cname # domain

\* a walk that does not stop at the original domain
FollowsPastStart(cname, domain, cnames) == cname \notin cnames

\* the loop condition of line 202 and the test of line 203: the walk goes on
Follows(cname, domain, cnames) == cname # domain /\ cname \notin cnames

\* a failed lookup that returns nothing of what the walk recorded
HopDropsChainOnError(t, r) ==
    [t EXCEPT !.cnames = @ \cup {t.cname},
              !.chain = IF r.err THEN <<>> ELSE Append(@, t.cname),
              !.lookups = @ + 1,
              !.cname = r.cname,
              !.pc = IF r.err THEN "writeCname" ELSE "chain"]

\* lines 206-211: mark and record the name, look its CNAME up; a failed lookup
\* breaks out of the loop to the return of line 213
Hop(t, r) ==
    [t EXCEPT !.cnames = @ \cup {t.cname},
              !.chain = Append(@, t.cname),
              !.lookups = @ + 1,
              !.cname = r.cname,
              !.pc = IF r.err THEN "writeCname" ELSE "chain"]

\* lines 202-212: one iteration of the loop, or its end
CnameStep(d) ==
    /\ Alive
    /\ task[d].pc = "chain"
    /\ IF Follows(task[d].cname, task[d].domain, task[d].cnames)
       THEN task' = [task EXCEPT ![d] = Hop(@, LookupCNAME(@.cname))]
       ELSE task' = [task EXCEPT ![d].pc = "writeCname"]
    /\ UNCHANGED <<flags, env, mainpc, domains, spawned, mainWg, output, file, stdout,
                   prober>>

\* line 122, writeOutput(cnameChained, output), line 251 of one iteration of
\* its loop: the line on stdout; with no output file that is the whole iteration
EnumPrintCname(d) ==
    /\ Alive
    /\ task[d].pc = "writeCname"
    /\ ~task[d].printed
    /\ task[d].cw < Len(task[d].chain)
    /\ stdout' = Println(stdout, task[d].chain[task[d].cw + 1])
    /\ task' = IF output # "nil" THEN [task EXCEPT ![d].printed = TRUE]
               ELSE [task EXCEPT ![d].cw = @ + 1]
    /\ UNCHANGED <<flags, env, mainpc, domains, spawned, mainWg, output, file, prober>>

\* lines 252-254 of the iteration: the line in the file; or the loop is over
\* and the task goes on to the SNI sweep
EnumWriteCname(d) ==
    /\ Alive
    /\ task[d].pc = "writeCname"
    /\ IF task[d].printed
       THEN /\ file' = WriteLineFile(file, output, task[d].chain[task[d].cw + 1])
            /\ task' = [task EXCEPT ![d].cw = @ + 1, ![d].printed = FALSE]
       ELSE /\ task[d].cw = Len(task[d].chain)
            /\ task' = [task EXCEPT ![d].pc = "sni"]
            /\ UNCHANGED file
    /\ UNCHANGED <<flags, env, mainpc, domains, spawned, mainWg, output, stdout, prober>>

-----------------------------------------------------------------------------
(* sniEnumerate *)

\* the wordlist of lines 217-233, cut to four labels that keep its order and
\* the fact that it lists some labels twice ("portal", "cdn", "dashboard",
\* "backup")
commonSubdomains ==
    << <<"w", "w", "w">>, <<"p", "o">>, <<"a", "p", "i">>, <<"p", "o">> >>

\* fmt.Sprintf("%s.%s", subdomain, domain)
Addr(subdomain, domain) == subdomain \o <<".">> \o domain

\* lines 235-244: one iteration: tls.Dial, and on success the append and print;
\* the connection tls.Dial returns is dropped, not closed
SniProbe(d) ==
    /\ Alive
    /\ task[d].pc = "sni"
    /\ LET i == task[d].sidx + 1
           addr == Addr(commonSubdomains[i], task[d].domain)
           ok == addr \in env.tls
       IN /\ task' = [task EXCEPT
                        ![d].sidx = i,
                        ![d].sni = IF ok THEN Append(@, addr) ELSE @,
                        ![d].open = IF ok THEN @ + 1 ELSE @,
                        ![d].pc = IF i = Len(commonSubdomains) THEN "writeSni" ELSE "sni"]
          /\ stdout' = IF ok THEN PrintlnSNI(stdout, addr) ELSE stdout
    /\ UNCHANGED <<flags, env, mainpc, domains, spawned, mainWg, output, file, prober>>

\* line 127, writeOutput(sniSubdomains, output), line 251 of one iteration of
\* its loop: the line on stdout; with no output file that is the whole iteration
EnumPrintSni(d) ==
    /\ Alive
    /\ task[d].pc = "writeSni"
    /\ ~task[d].printed
    /\ task[d].sw < Len(task[d].sni)
    /\ stdout' = Println(stdout, task[d].sni[task[d].sw + 1])
    /\ task' = IF output # "nil" THEN [task EXCEPT ![d].printed = TRUE]
               ELSE [task EXCEPT ![d].sw = @ + 1]
    /\ UNCHANGED <<flags, env, mainpc, domains, spawned, mainWg, output, file, prober>>

\* lines 252-254 of the iteration: the line in the file; or the loop is over,
\* enumerateSubdomains returns and the deferred wg.Done() of line 46 runs
EnumWriteSni(d) ==
    /\ Alive
    /\ task[d].pc = "writeSni"
    /\ IF task[d].printed
       THEN /\ file' = WriteLineFile(file, output, task[d].sni[task[d].sw + 1])
            /\ task' = [task EXCEPT ![d].sw = @ + 1, ![d].printed = FALSE]
            /\ UNCHANGED mainWg
       ELSE /\ task[d].sw = Len(task[d].sni)
            /\ task' = [task EXCEPT ![d].pc = "done"]
            /\ mainWg' = mainWg - 1
            /\ UNCHANGED file
    /\ UNCHANGED <<flags, env, mainpc, domains, spawned, output, stdout, prober>>

-----------------------------------------------------------------------------
(* the runs checked *)

DomA == <<"a">>
DomB == <<"b">>
DomC == <<"c">>

\* the lines of the -f file: a www. prefix, padding, a scheme, and a blank line
RawLines == << Www \o DomA, <<"\t">> \o DomB \o <<" ">>, Http \o DomC >>

NoFile == [path |-> <<>>, lines |-> <<>>]
DomainFile(n) ==
    [path |-> <<"f">>, lines |-> SubSeq(RawLines, 1, Min(n, Len(RawLines))) \o << <<" ">> >>]

\* command lines: a file of domains with -o, no domain at all, one -d domain
SpecFlags ==
    { [f |-> DomainFile(MaxDomains), d |-> <<>>, o |-> <<"o">>],
      [f |-> NoFile, d |-> <<>>, o |-> <<>>],
      [f |-> NoFile, d |-> Https \o DomB, o |-> <<>>] }

NsNames == <<"m", "n", "o", "p">>
NsHosts(n) == [i \in 1..n |-> <<NsNames[i]>>]
NsErr == [err |-> TRUE, hosts |-> <<>>]
NsOk(hosts) == [err |-> FALSE, hosts |-> hosts]

RR(name, type) == [name |-> name, type |-> type]

\* the response of name server h to the query for a domain: an A and a CNAME
\* record under the domain, and an MX record
Zone(h, domain) ==
    Buf(FALSE, << RR(h \o <<".">> \o domain \o <<".">>, "A"),
                  RR(<<"z", ".">>, "MX"),
                  RR(h \o h \o <<".">>, "CNAME") >>)

\* the network of the concurrent runs: the first domain has MaxNS name servers
\* or none, the second none or a failed lookup, the third a failed lookup; a
\* dial may fail; a server answers the first query with its zone and the
\* reads of the later iterations time out
SpecEnv ==
    [ns |-> (DomA :> {NsOk(NsHosts(MaxNS)), NsOk(<<>>)})
              @@ (DomB :> {NsErr, NsOk(<<>>)})
              @@ (DomC :> {NsErr}),
     axfr |-> [h \in {<<NsNames[i]>> : i \in 1..Len(NsNames)} |->
                [connect |-> {"ok", "dialErr"},
                 io |-> << {Read(Zone(h, DomA))}, {ReadErr}, {ReadErr} >>]],
     cname |-> (DomA :> <<"c">>) @@ (<<"c">> :> DomA) @@ (DomB :> DomB),
     tls |-> {Addr(<<"a", "p", "i">>, DomA), Addr(<<"a", "p", "i">>, DomB)},
     denied |-> {}, unreadable |-> {}]

Init == \E fl \in SpecFlags : Start(fl, SpecEnv)

Next ==
    \/ MainLoad
    \/ MainSpawn
    \/ MainWait
    \/ \E d \in TaskIds :
        \/ EnumLookupNS(d)
        \/ EnumSpawnAXFR(d)
        \/ EnumWait(d)
        \/ CnameFirst(d)
        \/ CnameStep(d)
        \/ EnumPrintCname(d)
        \/ EnumWriteCname(d)
        \/ SniProbe(d)
        \/ EnumPrintSni(d)
        \/ EnumWriteSni(d)
        \/ \E k \in NsIds :
            \/ AxfrConnect(d, k)
            \/ AxfrSend(d, k)
            \/ AxfrRead(d, k)
            \/ AxfrSleep(d, k)
            \/ AxfrAnswer(d, k)
            \/ ProberPrint(d, k)
            \/ ProberWrite(d, k)
            \/ ProberDone(d, k)

Spec == Init /\ [][Next]_vars

-----------------------------------------------------------------------------
(* One AXFR session: attemptAXFR from its call to its return, against a name
   server that may do anything the code provides for *)

\* the records a response may carry
Records == {RR(<<"x", ".">>, "A"), RR(<<"y", ".">>, "CNAME"), RR(<<"z", ".">>, "MX")}

\* the buffers a read may return: a malformed one, and every response of up
\* to MaxAnswers answers
Buffers ==
    {NoBuf} \cup {Buf(FALSE, a) : a \in UNION {[1..n -> Records] : n \in 0..MaxAnswers}}

AXFREnv ==
    [ns |-> (DomA :> {NsOk(NsHosts(1))}),
     axfr |-> (<<NsNames[1]>> :>
                [connect |-> {"ok", "dialErr", "packErr"},
                 io |-> [i \in 1..MaxAttempts |->
                            {WriteErr, ReadErr} \cup {Read(b) : b \in Buffers}]]),
     cname |-> << >>,
     tls |-> {},
     denied |-> {}, unreadable |-> {}]

\* sub_sniaX -d a, at the call of attemptAXFR for the one name server of a
AXFRInit ==
    /\ flags = [f |-> NoFile, d |-> DomA, o |-> <<>>]
    /\ env = AXFREnv
    /\ mainpc = "wait"
    /\ domains = <<DomA>>
    /\ spawned = 1
    /\ mainWg = 1
    /\ output = "nil"
    /\ file = EmptyFile
    /\ stdout = EmptyBag
    /\ task = [d \in TaskIds |->
                IF d = 1
                THEN [IdleTask EXCEPT !.pc = "wait", !.domain = DomA,
                                      !.ns = NsHosts(1), !.launched = 1, !.wg = 1]
                ELSE IdleTask]
    /\ prober = [d \in TaskIds |-> [k \in NsIds |->
                IF d = 1 /\ k = 1
                THEN [NoProber EXCEPT !.pc = "dial", !.ns = NsHosts(1)[1]]
                ELSE NoProber]]

AXFRNext ==
    \/ AxfrConnect(1, 1)
    \/ AxfrSend(1, 1)
    \/ AxfrRead(1, 1)
    \/ AxfrSleep(1, 1)
    \/ AxfrAnswer(1, 1)

AXFRSpec == AXFRInit /\ [][AXFRNext]_vars

\* a blocked call returns (the read has a deadline) and the goroutine is
\* scheduled: a session that can take a step takes one
AXFRFairSpec == AXFRSpec /\ WF_vars(AXFRNext)

-----------------------------------------------------------------------------
(* One CNAME walk: cnameChain from its call to its return, over every set of
   CNAME records of a few hostnames *)

MaxHosts == 4
\* the hostnames of the records; "a." is the domain as a resolver spells a
\* canonical name, a string other than "a"
HostNames == << <<"a">>, <<"b">>, <<"c">>, <<"a", ".">>, <<"d">>, <<"e">> >>
Hosts == {HostNames[i] : i \in 1..Min(MaxHosts, Len(HostNames))}

\* every resolution relation: a host has no CNAME answer (the lookup fails) or
\* resolves to one host
Relations == UNION {[S -> Hosts] : S \in SUBSET Hosts}

CNAMEEnv(rel) ==
    [ns |-> (DomA :> {NsOk(<<>>)}), axfr |-> << >>, cname |-> rel,
     tls |-> {Addr(<<"a", "p", "i">>, DomA)},
     denied |-> {}, unreadable |-> {}]

\* sub_sniaX -d a, at the call of cnameChain; a has no name server
CNAMEInit ==
    \E rel \in Relations :
        /\ flags = [f |-> NoFile, d |-> DomA, o |-> <<>>]
        /\ env = CNAMEEnv(rel)
        /\ mainpc = "wait"
        /\ domains = <<DomA>>
        /\ spawned = 1
        /\ mainWg = 1
        /\ output = "nil"
        /\ file = EmptyFile
        /\ stdout = EmptyBag
        /\ task = [d \in TaskIds |->
                    IF d = 1 THEN [IdleTask EXCEPT !.pc = "cname", !.domain = DomA]
                    ELSE IdleTask]
        /\ prober = [d \in TaskIds |-> [k \in NsIds |-> NoProber]]

CNAMENext == CnameFirst(1) \/ CnameStep(1)

CNAMESpec == CNAMEInit /\ [][CNAMENext]_vars

\* a lookup returns and the goroutine is scheduled
CNAMEFairSpec == CNAMESpec /\ WF_vars(CNAMENext)

\* the walk and what enumerateSubdomains does after it: lines 121-127
WalkNext ==
    \/ CnameFirst(1)
    \/ CnameStep(1)
    \/ EnumPrintCname(1)
    \/ EnumWriteCname(1)
    \/ SniProbe(1)
    \/ EnumPrintSni(1)
    \/ EnumWriteSni(1)

WalkSpec == CNAMEInit /\ [][WalkNext]_vars

-----------------------------------------------------------------------------
(* What the claims speak of *)

Tasks == 1..Len(domains)
Servers(d) == 1..Len(task[d].ns)

\* the prober goroutine of (d, k) has ended: attemptAXFR has returned and
\* writeOutput has written its whole result
ProberEnded(d, k) ==
    /\ prober[d][k].pc = "done"
    /\ prober[d][k].wi = Len(prober[d][k].result)

\* every prober of domain d was launched and has ended
AxfrFinished(d) ==
    /\ ~task[d].nsErr
    /\ task[d].launched = Len(task[d].ns)
    /\ task[d].wg = 0
    /\ \A k \in NsIds : IF k \in Servers(d) THEN ProberEnded(d, k)
                                             ELSE prober[d][k].pc = "none"

InLoop(p) == p.pc \in {"loop", "read", "sleep", "answers"}
ProberRunning(d, k) == prober[d][k].pc = "dial" \/ InLoop(prober[d][k]) \/ prober[d][k].pc = "output"

CnameStarted(d) == task[d].lookups > 0 \/ task[d].cw > 0
CnameWritten(d) ==
    /\ task[d].pc \in {"sni", "writeSni", "done"}
    /\ task[d].cw = Len(task[d].chain)
SniStarted(d) == task[d].sidx > 0 \/ task[d].sw > 0
SniWritten(d) ==
    /\ task[d].sidx = Len(commonSubdomains)
    /\ task[d].sw = Len(task[d].sni)

\* C1: when main has passed wg.Wait() (line 53), every domain task has ended,
\* and every AXFR prober of every domain has returned and written its results
C1_MainWaitsForAll ==
    mainpc = "exit" =>
        /\ spawned = Len(domains)
        /\ \A d \in Tasks :
            /\ task[d].pc = "done"
            /\ task[d].nsErr \/ AxfrFinished(d)
            /\ \A k \in NsIds : ~ProberRunning(d, k)

\* main has exited after a run in which a domain had two probers that both
\* wrote results
C1_Witness ==
    /\ mainpc = "exit"
    /\ \E d \in Tasks :
        /\ Len(task[d].ns) >= 2
        /\ \A k \in Servers(d) : ProberEnded(d, k) /\ Len(prober[d][k].result) > 0

\* C2: within one domain the CNAME walk starts, and its results are written,
\* only after every AXFR prober of the domain has ended, and the SNI sweep
\* starts only after the CNAME results are all written
C2_PhaseOrder ==
    \A d \in TaskIds :
        /\ (task[d].pc \in {"cname", "chain", "writeCname"} \/ CnameStarted(d))
                => AxfrFinished(d)
        /\ (task[d].pc \in {"sni", "writeSni"} \/ SniStarted(d))
                => AxfrFinished(d) /\ CnameWritten(d)

\* one domain is in its SNI sweep, after its CNAME results were written, while
\* a prober of another domain is still running: no order across domains
C2_Witness ==
    \E d1 \in Tasks, d2 \in Tasks :
        /\ d1 # d2
        /\ task[d1].pc = "sni" /\ SniStarted(d1) /\ CnameWritten(d1)
        /\ \E k \in Servers(d2) : ProberRunning(d2, k) /\ prober[d2][k].io # <<>>

RECURSIVE SplitLines(_, _)
\* the lines of a byte sequence; cur is the line being read, and a last line
\* with no newline is kept as it is, so it matches no hostname line
SplitLines(data, cur) ==
    IF data = <<>> THEN (IF cur = <<>> THEN <<>> ELSE << cur >>)
    ELSE IF Head(data) = "\n" THEN << cur \o <<"\n">> >> \o SplitLines(Tail(data), <<>>)
    ELSE SplitLines(Tail(data), Append(cur, Head(data)))

RECURSIVE BagOfSeq(_)
BagOfSeq(q) == IF q = <<>> THEN EmptyBag ELSE SetToBag({Head(q)}) (+) BagOfSeq(Tail(q))

RECURSIVE BagSum(_, _)
\* the sum of the bags f[x], x in S
BagSum(f, S) ==
    IF S = {} THEN EmptyBag
    ELSE LET x == CHOOSE y \in S : TRUE IN f[x] (+) BagSum(f, S \ {x})

RECURSIVE WithNewlines(_)
WithNewlines(names) ==
    IF names = <<>> THEN <<>>
    ELSE << Head(names) \o <<"\n">> >> \o WithNewlines(Tail(names))

\* the lines the writers have appended so far: per writer, the names its
\* writeOutput loop has gone through, each followed by a newline
WrittenBy(d) ==
    BagOfSeq(WithNewlines(SubSeq(task[d].chain, 1, task[d].cw)))
        (+) BagOfSeq(WithNewlines(SubSeq(task[d].sni, 1, task[d].sw)))
        (+) BagSum([k \in NsIds |->
                      BagOfSeq(WithNewlines(SubSeq(prober[d][k].result, 1, prober[d][k].wi)))],
                   NsIds)

LinesWritten == BagSum([d \in TaskIds |-> WrittenBy(d)], TaskIds)
NumWritten ==
    LET b == LinesWritten IN BagCardinality(b)

\* C3: with an output file, at every moment the file holds exactly the lines
\* the writers have appended: as many lines as WriteString calls (N*K at the
\* end), each a writer's hostname followed by a newline, none lost,
\* overwritten or cut by another writer's bytes
C3_FileLines ==
    output # "nil" =>
        LET lines == SplitLines(file.data, <<>>)
        IN /\ BagOfSeq(lines) = LinesWritten
           /\ Len(lines) = NumWritten
           /\ file.off = Len(file.data)

\* main has exited; two probers of one domain have each appended two lines and
\* their lines alternate in the file
C3_Witness ==
    /\ mainpc = "exit" /\ output = "closed"
    /\ \E d \in Tasks : \E k1 \in Servers(d), k2 \in Servers(d) :
        LET lines == SplitLines(file.data, <<>>)
            r1 == prober[d][k1].result
            r2 == prober[d][k2].result
        IN /\ k1 # k2 /\ Len(r1) = 2 /\ Len(r2) = 2
           /\ prober[d][k1].wi = 2 /\ prober[d][k2].wi = 2
           /\ Len(lines) >= 4
           /\ SubSeq(lines, 1, 4) = WithNewlines(<<r1[1], r2[1], r1[2], r2[2]>>)

\* the next step of a goroutine of domain d, or of main, is possible
TaskCanStep(d) ==
    ENABLED (\/ EnumLookupNS(d) \/ EnumSpawnAXFR(d) \/ EnumWait(d) \/ CnameFirst(d)
             \/ CnameStep(d) \/ EnumPrintCname(d) \/ EnumWriteCname(d) \/ SniProbe(d)
             \/ EnumPrintSni(d) \/ EnumWriteSni(d))
ProberCanStep(d, k) ==
    ENABLED (\/ AxfrConnect(d, k) \/ AxfrSend(d, k) \/ AxfrRead(d, k) \/ AxfrSleep(d, k)
             \/ AxfrAnswer(d, k) \/ ProberPrint(d, k) \/ ProberWrite(d, k)
             \/ ProberDone(d, k))

\* C4: a domain whose name-server lookup failed launches no prober, makes no
\* CNAME lookup and no SNI probe, writes nothing and has ended; every other
\* domain is never held up by it (its task can step until it ends, or waits
\* only for its own probers, which can step), and when main exits every domain
\* has ended, the others after their CNAME walk and their whole SNI sweep
C4_NsFailureScoped ==
    /\ \A d \in TaskIds :
        task[d].nsErr =>
            /\ task[d].pc = "done"
            /\ task[d].launched = 0
            /\ \A k \in NsIds : prober[d][k].pc = "none"
            /\ task[d].lookups = 0 /\ task[d].sidx = 0
            /\ task[d].cw = 0 /\ task[d].sw = 0
            /\ WrittenBy(d) = EmptyBag
    /\ \A d \in TaskIds :
        (Alive /\ task[d].pc \notin {"idle", "done"}) =>
            \/ TaskCanStep(d)
            \/ /\ task[d].pc = "wait"
               /\ \E k \in Servers(d) : ProberRunning(d, k) /\ ProberCanStep(d, k)
    /\ mainpc = "wait" /\ (\A d \in Tasks : task[d].pc = "done") => ENABLED MainWait
    /\ mainpc = "exit" =>
        \A d \in Tasks :
            /\ task[d].pc = "done"
            /\ ~task[d].nsErr =>
                AxfrFinished(d) /\ task[d].lookups > 0 /\ CnameWritten(d) /\ SniWritten(d)

\* main has exited; one domain's lookup failed, another domain ran its probers,
\* its CNAME walk and its SNI sweep and wrote lines
C4_Witness ==
    /\ mainpc = "exit"
    /\ \E d1 \in Tasks, d2 \in Tasks :
        /\ task[d1].nsErr
        /\ ~task[d2].nsErr /\ Len(task[d2].ns) > 0
        /\ task[d2].chain # <<>> /\ task[d2].sni # <<>>
        /\ WrittenBy(d2) # EmptyBag

Count(q, S) == Cardinality({i \in DOMAIN q : q[i] \in S})

\* C8: a probe whose dial failed returns the empty result with no connection,
\* having sent nothing, read nothing and slept for no backoff; and the other
\* probers of its domain go on: each still running one can take its next step
C8_DialFailure ==
    \A d \in TaskIds : \A k \in NsIds :
        prober[d][k].exit = "dial" =>
            /\ prober[d][k].pc \in {"output", "done"}
            /\ prober[d][k].result = <<>>
            /\ prober[d][k].conn = "none"
            /\ prober[d][k].io = <<"dialErr">>
            /\ \A k2 \in NsIds \ {k} : ProberRunning(d, k2) => ProberCanStep(d, k2)
            /\ Alive /\ prober[d][k].pc = "output" => ProberCanStep(d, k)

\* a prober's dial failed, and after that failure another prober of the same
\* domain made its three attempts and ended with names
C8_Witness ==
    \E d \in Tasks : \E k \in Servers(d), k2 \in Servers(d) :
        /\ k # k2
        /\ prober[d][k].exit = "dial" /\ prober[d][k].pc = "done"
        /\ prober[d][k2].exit = "exhausted" /\ ProberEnded(d, k2)
        /\ Count(prober[d][k2].io, {"read", "readErr"}) = MaxAttempts
        /\ prober[d][k2].result # <<>>

Sends(p) == Count(p.io, {"write", "writeErr"})
Reads(p) == Count(p.io, {"read", "readErr"})
HasReturned(p) == p.pc \in {"output", "done"}

\* C5, as claimed: a session sends its query once, before any read, and no
\* attempt sends it again
C5_SendsOnce ==
    \A d \in TaskIds : \A k \in NsIds :
        LET io == prober[d][k].io
        IN /\ Sends(prober[d][k]) <= 1
           /\ \A i \in DOMAIN io : \A j \in DOMAIN io :
                (i < j /\ io[i] \in {"read", "readErr"}) => io[j] \notin {"write", "writeErr"}

\* the attempt of a session that is under way, or that ended it
Unfinished(p) ==
    IF p.pc \in {"read", "sleep", "answers"} \/ p.exit \in {"write", "decode"} THEN 1 ELSE 0

\* C5, amended: the query is sent at the start of every attempt: the session
\* makes one send per attempt started, at most MaxAttempts, each read comes
\* right after the send of its attempt, and a session that runs out of
\* attempts has sent the query MaxAttempts times
C5_SendsEachAttempt ==
    \A d \in TaskIds : \A k \in NsIds :
        LET p == prober[d][k]
            io == p.io
            started == p.attempts + Unfinished(p)
        IN /\ Sends(p) = started
           /\ Sends(p) <= MaxAttempts
           /\ \A i \in DOMAIN io :
                io[i] \in {"read", "readErr"} => i > 1 /\ io[i - 1] = "write"
           /\ \A i \in DOMAIN io :
                io[i] = "write" =>
                    IF i = Len(io) THEN p.pc = "read"
                    ELSE io[i + 1] \in {"read", "readErr"}
           /\ p.exit = "exhausted" => Sends(p) = MaxAttempts

\* a session has returned after three attempts, each of which sent the query
C5_Witness ==
    \E d \in TaskIds : \E k \in NsIds :
        /\ HasReturned(prober[d][k])
        /\ prober[d][k].exit = "exhausted"
        /\ Count(prober[d][k].io, {"write"}) = 3
        /\ Count(prober[d][k].io, {"read"}) >= 1

\* no connect, pack, send or decode failure in the session
NoFailure(p) ==
    /\ p.exit \notin {"dial", "pack"}
    /\ Count(p.io, {"dialErr", "writeErr", "unpackErr"}) = 0

AtMostThreeReads ==
    \A d \in TaskIds : \A k \in NsIds :
        LET p == prober[d][k]
        IN /\ Reads(p) <= 3
           /\ p.attempts <= 3
           /\ (HasReturned(p) /\ NoFailure(p)) => Reads(p) = 3
           /\ (p.pc = "loop" /\ NoFailure(p)) => Reads(p) = p.attempts /\ Reads(p) < 3

\* C6: a probe never makes more than 3 reads; with no connect, send or decode
\* failure it returns after exactly 3 reads, whatever they returned, and not
\* before; and every probe returns
C6_ThreeReads ==
    /\ []AtMostThreeReads
    /\ <>(\A d \in TaskIds : \A k \in NsIds : prober[d][k].pc \in {"none", "output", "done"})

\* a session has returned after three reads, some good and some failed
C6_Witness ==
    \E d \in TaskIds : \E k \in NsIds :
        /\ HasReturned(prober[d][k])
        /\ NoFailure(prober[d][k])
        /\ Count(prober[d][k].io, {"read"}) >= 1
        /\ Count(prober[d][k].io, {"readErr"}) >= 1
        /\ Reads(prober[d][k]) = 3

\* a name as the claim has it: the trailing dot taken off
Stripped(name) ==
    IF name # <<>> /\ name[Len(name)] = "." THEN [i \in 1..(Len(name) - 1) |-> name[i]]
    ELSE name

\* the A and CNAME answers of a response, in answer order
Wanted(msg) == SelectSeq(msg.answers, LAMBDA r : r.type \in {"A", "CNAME"})

RECURSIVE ExpectedNames(_)
\* the names of the wanted answers of the responses, in attempt order
ExpectedNames(msgs) ==
    IF msgs = <<>> THEN <<>>
    ELSE LET last == Wanted(msgs[Len(msgs)])
         IN ExpectedNames(SubSeq(msgs, 1, Len(msgs) - 1))
                \o [i \in 1..Len(last) |-> Stripped(last[i].name)]

\* C7: the result of a probe is the names, dot stripped, of the A and CNAME
\* answers of the responses it read and decoded, in attempt and answer order;
\* other types, failed reads and failures add and remove nothing
C7_ResultIsSurfacedNames ==
    \A d \in TaskIds : \A k \in NsIds :
        LET p == prober[d][k]
        IN /\ p.result \o ExpectedNames(<< [answers |-> p.resp] >>)
                    = ExpectedNames(p.decoded)
           /\ p.pc # "answers" => p.resp = <<>> /\ p.result = ExpectedNames(p.decoded)
           /\ Len(p.decoded) = Count(p.io, {"unpack"})

\* attempt 1 read X (A) and Y (CNAME), attempts 2 and 3 timed out: [X, Y]
C7_Witness ==
    \E d \in TaskIds : \E k \in NsIds :
        /\ prober[d][k].io = <<"dial", "write", "read", "unpack",
                               "write", "readErr", "sleep",
                               "write", "readErr", "sleep", "close">>
        /\ prober[d][k].decoded =
                << Buf(FALSE, <<RR(<<"x", ".">>, "A"), RR(<<"y", ".">>, "CNAME")>>) >>
        /\ prober[d][k].result = << <<"x">>, <<"y">> >>
        /\ HasReturned(prober[d][k])

-----------------------------------------------------------------------------

\* the hostnames of a walk: its domain and those of the CNAME records
Range(f) == {f[x] : x \in DOMAIN f}
KnownHosts(d) == {task[d].domain} \cup DOMAIN env.cname \cup Range(env.cname)

WalkReturned(d) ==
    task[d].lookups > 0 /\ task[d].pc \in {"writeCname", "sni", "writeSni", "done"}

LookupsBounded ==
    \A d \in TaskIds : task[d].lookups <= Cardinality(KnownHosts(d)) + 1

\* C9: a walk makes at most as many lookups as there are hostnames, plus one,
\* and it returns, whatever the CNAME records: cycles through the start,
\* self-references and cycles that miss the start included
C9_WalkTerminates ==
    /\ []LookupsBounded
    /\ <>(\A d \in TaskIds : task[d].pc \notin {"cname", "chain"})

\* the walk from a over a -> b -> c -> a has returned [b, c] after 3 lookups
C9_Witness ==
    \E d \in TaskIds :
        /\ WalkReturned(d)
        /\ task[d].domain = <<"a">>
        /\ LookupCNAME(<<"a">>) = [err |-> FALSE, cname |-> <<"b">>]
        /\ LookupCNAME(<<"b">>) = [err |-> FALSE, cname |-> <<"c">>]
        /\ LookupCNAME(<<"c">>) = [err |-> FALSE, cname |-> <<"a">>]
        /\ task[d].chain = << <<"b">>, <<"c">> >>
        /\ task[d].lookups = 3

\* C10: the result of a walk lists the targets in the order followed: the
\* first is the CNAME of the domain and each next one the CNAME of the one
\* before; it holds neither the domain nor any host twice; and when the walk
\* has returned nothing more could be followed: the last lookup failed, or gave
\* the domain or a host already listed (so a domain that resolves to itself
\* gives the empty result)
C10_ChainIsDistinctPath ==
    \A d \in TaskIds :
        LET c == task[d].chain
            dom == task[d].domain
            ok(h, t) == LookupCNAME(h) = [err |-> FALSE, cname |-> t]
        IN /\ \A i \in DOMAIN c : c[i] # dom
           /\ \A i \in DOMAIN c : \A j \in DOMAIN c : i # j => c[i] # c[j]
           /\ c # <<>> => ok(dom, c[1])
           /\ \A i \in DOMAIN c : i < Len(c) => ok(c[i], c[i + 1])
           /\ WalkReturned(d) =>
                LET r == LookupCNAME(IF c = <<>> THEN dom ELSE c[Len(c)])
                IN r.err \/ r.cname = dom \/ r.cname \in Range(c)
           /\ (WalkReturned(d) /\ ok(dom, dom)) => c = <<>>

\* the walk from a over a -> b -> b has returned [b]
C10_Witness ==
    \E d \in TaskIds :
        /\ WalkReturned(d)
        /\ task[d].domain = <<"a">>
        /\ LookupCNAME(<<"a">>) = [err |-> FALSE, cname |-> <<"b">>]
        /\ LookupCNAME(<<"b">>) = [err |-> FALSE, cname |-> <<"b">>]
        /\ task[d].chain = << <<"b">> >>

-----------------------------------------------------------------------------
(* One SNI sweep: sniEnumerate from its call to the end of the task, for each
   domain and every set of hostnames that accept a TLS connection *)

\* the hostnames the sweep dials for a domain
Candidates(domain) ==
    {Addr(commonSubdomains[i], domain) : i \in DOMAIN commonSubdomains}

SNIEnv(domain, accepting) ==
    [ns |-> (domain :> {NsOk(<<>>)}), axfr |-> << >>, cname |-> << >>, tls |-> accepting,
     denied |-> {}, unreadable |-> {}]

\* sub_sniaX -d domain -o o, at the call of sniEnumerate: the NS lookup gave no
\* server and the CNAME lookup failed
SNIInit ==
    \E domain \in {DomA, DomB, DomC} : \E accepting \in SUBSET Candidates(domain) :
        /\ flags = [f |-> NoFile, d |-> domain, o |-> <<"o">>]
        /\ env = SNIEnv(domain, accepting)
        /\ mainpc = "wait"
        /\ domains = <<domain>>
        /\ spawned = 1
        /\ mainWg = 1
        /\ output = "open"
        /\ file = EmptyFile
        /\ stdout = EmptyBag
        /\ task = [d \in TaskIds |->
                    IF d = 1
                    THEN [IdleTask EXCEPT !.pc = "sni", !.domain = domain, !.lookups = 1]
                    ELSE IdleTask]
        /\ prober = [d \in TaskIds |-> [k \in NsIds |-> NoProber]]

SNINext == SniProbe(1) \/ EnumPrintSni(1) \/ EnumWriteSni(1)

SNISpec == SNIInit /\ [][SNINext]_vars

-----------------------------------------------------------------------------
(* C11 *)

\* sniEnumerate has returned
SweepReturned(d) == task[d].pc \in {"writeSni", "done"}

\* where the wordlist first lists the label of a candidate hostname
FirstIndex(addr, domain) ==
    CHOOSE i \in DOMAIN commonSubdomains :
        /\ Addr(commonSubdomains[i], domain) = addr
        /\ \A j \in 1..(i - 1) : Addr(commonSubdomains[j], domain) # addr

\* C11: the sweep dials every candidate whatever failed before, and returns
\* the accepting hostnames and no other, one entry per accepting hostname, in
\* the order of the wordlist
C11_SniExactlyAccepting ==
    \A d \in TaskIds :
        SweepReturned(d) =>
            LET sni == task[d].sni
                accepting == Candidates(task[d].domain) \cap env.tls
            IN /\ task[d].sidx = Len(commonSubdomains)
               /\ \A i \in DOMAIN sni : sni[i] \in accepting
               /\ \A h \in accepting : Count(sni, {h}) = 1
               /\ \A i, j \in DOMAIN sni :
                     i < j => FirstIndex(sni[i], task[d].domain)
                                 < FirstIndex(sni[j], task[d].domain)

-----------------------------------------------------------------------------
(* C12 *)

\* the lines " - <hostname>" of standard output, as the bag of their hostnames
HostnameLines(out) ==
    [n \in {e.name : e \in {x \in DOMAIN out : x.fmt = "host"}} |->
        out[[fmt |-> "host", name |-> n]]]

\* the lines of the output file, as the bag of their hostnames
FileHostnames(f) ==
    LET lines == SplitLines(f.data, <<>>)
    IN BagOfSeq([i \in DOMAIN lines |-> TrimSuffix(lines[i], <<"\n">>)])

\* C12: with an output file, when the program ends the hostname lines of
\* standard output and the lines of the file are the same multiset: an entry
\* of a result has one line in each
C12_StdoutMatchesFile ==
    (mainpc = "exit" /\ output # "nil") =>
        HostnameLines(stdout) = FileHostnames(file)

-----------------------------------------------------------------------------
(* The command line: main from its start to the NS lookup of each domain, over
   command lines with and without -f, -d and -o, and files that can and cannot
   be opened *)

MaxPieces == 3

RECURSIVE Strings(_)
\* the strings made of at most n of the pieces "https://", "http://", "www."
\* and "a"
Strings(n) ==
    IF n = 0 THEN {<<>>}
    ELSE LET shorter == Strings(n - 1)
         IN shorter \cup {piece \o s : piece \in {Https, Http, Www, DomA}, s \in shorter}

\* the lines a -f file may hold: blank, padded, prefixed
FileLines == {<<" ", "\t", "U+2003">>, Www \o DomA, <<"U+00A0">> \o DomB \o <<" ", "\r">>}

\* the -f files: at most MaxDomains lines
DomainFiles ==
    {[path |-> <<"f">>, lines |-> ls] :
        ls \in UNION {[1..n -> FileLines] : n \in 0..MaxDomains}}

CLIFlags ==
    {[f |-> f, d |-> d, o |-> o] :
        f \in {NoFile} \cup DomainFiles, d \in Strings(MaxPieces), o \in {<<>>, <<"o">>}}

\* every name server lookup fails
CLIEnv(denied, unreadable) ==
    [ns |-> << >>, axfr |-> << >>, cname |-> << >>, tls |-> {}, denied |-> denied,
     unreadable |-> unreadable]

CLIInit ==
    \E fl \in CLIFlags :
        \E denied \in SUBSET {<<"f">>, <<"o">>}, unreadable \in SUBSET {<<"f">>} :
            Start(fl, CLIEnv(denied, unreadable))

CLINext ==
    \/ MainLoad
    \/ MainSpawn
    \/ MainWait
    \/ \E d \in TaskIds : EnumLookupNS(d)

CLISpec == CLIInit /\ [][CLINext]_vars

-----------------------------------------------------------------------------
(* C13 *)

\* the string starts with a scheme or with the label www
Prefixed(D) == HasPrefix(D, Https) \/ HasPrefix(D, Http) \/ HasPrefix(D, Www)

\* the goroutine of domain d has normalized its domain (line 48)
Normalized(d) == task[d].pc \notin {"idle", "start"}

\* C13: normalizing the normalized domain of a task changes nothing, and the
\* normalized domain of an input with no scheme and no www. is the input
C13_NormalizeIdempotent ==
    \A d \in TaskIds :
        Normalized(d) =>
            /\ Prefixed(domains[d]) => normalizeDomain(task[d].domain) = task[d].domain
            /\ ~Prefixed(domains[d]) => task[d].domain = domains[d]

-----------------------------------------------------------------------------
(* C14 *)

\* -d names a domain; the -f file holds a non-blank line
SingleDomainGiven == flags.d # <<>>
FileHasDomain == flags.f.path # <<>> /\ NonBlank(flags.f.lines) # <<>>

\* main is past loadDomains and the creation of the output file, and neither
\* ended in log.Fatalf
Loaded == mainpc \notin {"load", "fatal"}

\* C14: the program ends in the usage exit exactly when -d names no domain
\* and the -f file holds no non-blank line; in every other case, the one of
\* both flags with a blank file included, it goes on to enumerate
C14_UsageIffNoDomain ==
    Loaded =>
        /\ mainpc = "usage" <=> ~(SingleDomainGiven \/ FileHasDomain)
        /\ (SingleDomainGiven \/ FileHasDomain) =>
                /\ mainpc \in {"spawn", "wait", "exit"}
                /\ domains # <<>>

-----------------------------------------------------------------------------
(* C15 *)

Sleeps(p) == Count(p.io, {"sleep"})
FailedReads(p) == Count(p.io, {"readErr"})

\* C15: in the trace of a session a failed read is followed by nothing while
\* the prober is in its backoff, and then by that one backoff; a backoff is
\* followed by the send of the next attempt, or by the close of the session
\* when that was its third attempt; a backoff follows nothing but a failed
\* read, so there are as many backoffs as failed reads and none after a
\* successful read; no session returns because of a read
C15_BackoffPerFailedRead ==
    \A d \in TaskIds : \A k \in NsIds :
        LET p == prober[d][k]
            io == p.io
        IN /\ Sleeps(p) = FailedReads(p) - (IF p.pc = "sleep" THEN 1 ELSE 0)
           /\ p.exit # "read"
           /\ p.pc = "sleep" => io[Len(io)] = "readErr" /\ p.attempts < MaxAttempts
           /\ \A i \in DOMAIN io :
                /\ io[i] = "readErr" =>
                      IF i = Len(io) THEN p.pc = "sleep" ELSE io[i + 1] = "sleep"
                /\ io[i] = "sleep" =>
                      /\ i > 1 /\ io[i - 1] = "readErr"
                      /\ IF i = Len(io)
                         THEN p.pc = "loop" /\ p.attempts < MaxAttempts
                         ELSE \/ io[i + 1] \in {"write", "writeErr"}
                              \/ /\ io[i + 1] = "close"
                                 /\ p.exit = "exhausted"
                                 /\ Count(SubSeq(io, 1, i), {"write"}) = MaxAttempts
                /\ io[i] = "read" => i < Len(io) /\ io[i + 1] \in {"unpack", "unpackErr"}

\* a session whose first read failed, backed off once and then read a response
C15_Witness ==
    \E d \in TaskIds : \E k \in NsIds :
        LET p == prober[d][k]
        IN /\ HasReturned(p)
           /\ Len(p.io) >= 7
           /\ SubSeq(p.io, 1, 7)
                = <<"dial", "write", "readErr", "sleep", "write", "read", "unpack">>
           /\ Sleeps(p) = 1

-----------------------------------------------------------------------------
(* One domain whose name servers fail in mid-session: each answers the first
   query with its zone; at the second attempt the write fails, or the response
   does not decode, or the read times out *)

FaultEnv ==
    [ns |-> (DomA :> {NsOk(NsHosts(MaxNS))}),
     axfr |-> [h \in {<<NsNames[i]>> : i \in 1..Len(NsNames)} |->
                [connect |-> {"ok"},
                 io |-> << {Read(Zone(h, DomA))},
                           {WriteErr, Read(NoBuf), ReadErr},
                           {ReadErr} >>]],
     cname |-> (DomA :> <<"c">>) @@ (<<"c">> :> DomA),
     tls |-> {Addr(<<"a", "p", "i">>, DomA)},
     denied |-> {}, unreadable |-> {}]

\* sub_sniaX -d a -o o
FaultInit == Start([f |-> NoFile, d |-> DomA, o |-> <<"o">>], FaultEnv)

FaultSpec == FaultInit /\ [][Next]_vars

-----------------------------------------------------------------------------
(* C16 *)

\* the session of a prober ended on a failed write or a failed decode
FailedMidSession(p) == p.exit \in {"write", "decode"}

\* C16: a session that ended on a failed write or decode made no attempt after
\* the failure and returned the names of the responses it had decoded before;
\* its goroutine writes them all; the other probers of the domain go on, and
\* so does the task: when main exits every prober has ended and the CNAME
\* walk and the whole SNI sweep have run and been written
C16_FailureEndsProbeOnly ==
    \A d \in TaskIds : \A k \in NsIds :
        LET p == prober[d][k]
            n == Len(p.io)
        IN FailedMidSession(p) =>
            /\ HasReturned(p)
            /\ n >= 2 /\ p.io[n] = "close"
            /\ p.io[n - 1] = (IF p.exit = "write" THEN "writeErr" ELSE "unpackErr")
            /\ Count(p.io, {"writeErr", "unpackErr"}) = 1
            /\ Len(p.decoded) = Count(p.io, {"unpack"})
            /\ p.result = ExpectedNames(p.decoded)
            /\ p.pc = "done" => p.wi = Len(p.result)
            /\ \A k2 \in Servers(d) \ {k} :
                    (Alive /\ ProberRunning(d, k2)) => ProberCanStep(d, k2)
            /\ (Alive /\ task[d].pc # "done") =>
                    \/ TaskCanStep(d)
                    \/ /\ task[d].pc = "wait"
                       /\ \E k2 \in Servers(d) : ProberRunning(d, k2) /\ ProberCanStep(d, k2)
            /\ mainpc = "exit" =>
                    /\ AxfrFinished(d)
                    /\ task[d].lookups > 0 /\ CnameWritten(d) /\ SniWritten(d)
                    /\ output # "nil" =>
                          BagOfSeq(WithNewlines(p.result))
                              \sqsubseteq BagOfSeq(SplitLines(file.data, <<>>))

\* main has exited; one session ended on a failed write and another on a
\* failed decode, each after gathering names, and the domain's CNAME walk and
\* SNI sweep found hostnames
C16_Witness ==
    /\ mainpc = "exit"
    /\ \E d \in Tasks : \E k1, k2 \in Servers(d) :
        /\ prober[d][k1].exit = "write" /\ prober[d][k1].result # <<>>
        /\ prober[d][k2].exit = "decode" /\ prober[d][k2].result # <<>>
        /\ task[d].chain # <<>> /\ task[d].sni # <<>>
        /\ Len(SplitLines(file.data, <<>>))
              >= Len(prober[d][k1].result) + Len(prober[d][k2].result) + 2

-----------------------------------------------------------------------------
(* C17 *)

\* the CNAME lookup of a host fails
LookupFails(host) == LookupCNAME(host).err

\* C17: when the lookup of the domain itself fails the walk returns the empty
\* result after that one lookup; when the lookup of a later host fails the walk
\* returns the hosts followed up to and with that host, each the CNAME of the
\* one before, and has made no lookup after the failed one (so a walk whose
\* first lookup gave another host never returns the empty result); either way the
\* process lives on, the task can step until it has ended, and it ends with
\* the result written and the whole wordlist dialled
C17_CnameFailureKeepsChain ==
    \A d \in TaskIds :
        LET c == task[d].chain
            dom == task[d].domain
            ok(h, t) == LookupCNAME(h) = [err |-> FALSE, cname |-> t]
            failedFirst == task[d].lookups > 0 /\ LookupFails(dom)
            failedLater == WalkReturned(d) /\ c # <<>> /\ LookupFails(c[Len(c)])
        IN /\ failedFirst => WalkReturned(d) /\ c = <<>> /\ task[d].lookups = 1
           /\ (WalkReturned(d) /\ ~LookupFails(dom) /\ LookupCNAME(dom).cname # dom) =>
                c # <<>>
           /\ failedLater =>
                /\ ok(dom, c[1])
                /\ \A i \in 1..(Len(c) - 1) : ok(c[i], c[i + 1])
                /\ task[d].lookups = Len(c) + 1
           /\ (failedFirst \/ failedLater) =>
                /\ Alive
                /\ task[d].pc # "done" => TaskCanStep(d)
                /\ task[d].pc = "done" => CnameWritten(d) /\ SniWritten(d)

\* the walk from a over a -> b -> c, where the lookup of c fails, has returned
\* [b, c], and the task has ended after its SNI sweep
C17_Witness ==
    \E d \in TaskIds :
        /\ task[d].pc = "done"
        /\ task[d].domain = <<"a">>
        /\ LookupCNAME(<<"a">>) = [err |-> FALSE, cname |-> <<"b">>]
        /\ LookupCNAME(<<"b">>) = [err |-> FALSE, cname |-> <<"c">>]
        /\ LookupFails(<<"c">>)
        /\ task[d].chain = << <<"b">>, <<"c">> >>
        /\ task[d].cw = 2
        /\ task[d].sidx = Len(commonSubdomains)

-----------------------------------------------------------------------------
(* One domain whose techniques all find the same hostname: both name servers
   answer the first query, and maybe the second, with an A record api.a., the
   CNAME of a is api.a, and api.a accepts a TLS connection *)

ApiA == Addr(<<"a", "p", "i">>, DomA)

ApiZone == Buf(FALSE, << RR(ApiA \o <<".">>, "A"), RR(<<"z", ".">>, "MX") >>)

DupEnv ==
    [ns |-> (DomA :> {NsOk(NsHosts(MaxNS))}),
     axfr |-> [h \in {<<NsNames[i]>> : i \in 1..Len(NsNames)} |->
                [connect |-> {"ok"},
                 io |-> << {Read(ApiZone)}, {Read(ApiZone), ReadErr}, {ReadErr} >>]],
     cname |-> (DomA :> ApiA),
     tls |-> {ApiA},
     denied |-> {}, unreadable |-> {}]

\* sub_sniaX -d a -o o
DupInit == Start([f |-> NoFile, d |-> DomA, o |-> <<"o">>], DupEnv)

DupSpec == DupInit /\ [][Next]_vars

-----------------------------------------------------------------------------
(* C18 *)

RECURSIVE SumLen(_, _)
\* the sum of the lengths of the sequences f[x], x in S
SumLen(f, S) ==
    IF S = {} THEN 0
    ELSE LET x == CHOOSE y \in S : TRUE IN Len(f[x]) + SumLen(f, S \ {x})

\* the number of entries of the results of a domain
NumFound(d) ==
    SumLen([k \in NsIds |-> prober[d][k].result], NsIds)
        + Len(task[d].chain) + Len(task[d].sni)

\* the entries of the results of a domain, as lines
Found(d) ==
    BagOfSeq(WithNewlines(task[d].chain))
        (+) BagOfSeq(WithNewlines(task[d].sni))
        (+) BagSum([k \in NsIds |-> BagOfSeq(WithNewlines(prober[d][k].result))], NsIds)

RECURSIVE SumNat(_, _)
SumNat(f, S) ==
    IF S = {} THEN 0
    ELSE LET x == CHOOSE y \in S : TRUE IN f[x] + SumNat(f, S \ {x})

\* C18: a domain that has ended has appended as many lines as its AXFR
\* results, its CNAME result and its SNI result have entries; and when the
\* program ends the file holds one line per entry of a result, a hostname as
\* many times as it was found
C18_OneLinePerDiscovery ==
    output # "nil" =>
        /\ \A d \in Tasks :
              task[d].pc = "done" => BagCardinality(WrittenBy(d)) = NumFound(d)
        /\ mainpc = "exit" =>
              LET lines == SplitLines(file.data, <<>>)
              IN /\ Len(lines) = SumNat([d \in TaskIds |-> NumFound(d)], TaskIds)
                 /\ BagOfSeq(lines) = BagSum([d \in TaskIds |-> Found(d)], TaskIds)

\* the program has ended; each of two sessions found api.a at two attempts, the
\* CNAME walk found it and the SNI sweep found it: the file holds it six times
C18_Witness ==
    /\ mainpc = "exit"
    /\ output # "nil"
    /\ \E d \in Tasks :
        /\ prober[d][1].result = <<ApiA, ApiA>>
        /\ prober[d][2].result = <<ApiA, ApiA>>
        /\ task[d].chain = <<ApiA>>
        /\ task[d].sni = <<ApiA>>
        /\ Count(SplitLines(file.data, <<>>), {ApiA \o <<"\n">>}) = 6

-----------------------------------------------------------------------------
(* C19 *)

Closes(p) == Count(p.io, {"close"})

\* C19: the connection of a session is open only while its prober is in the
\* loop of attempts; a prober that has returned after a successful dial (on a failed
\* pack, a failed write, a failed decode or after its third attempt) has closed
\* it, once and as its last step; a prober whose dial failed never had one
C19_ConnClosedOnReturn ==
    \A d \in TaskIds : \A k \in NsIds :
        LET p == prober[d][k]
        IN /\ p.conn = "open" => InLoop(p)
           /\ Closes(p) > 0 => HasReturned(p)
           /\ HasReturned(p) =>
                /\ p.conn # "open"
                /\ p.exit \in {"dial", "pack", "write", "decode", "exhausted"}
                /\ IF p.exit = "dial"
                   THEN p.conn = "none" /\ Closes(p) = 0 /\ p.io = <<"dialErr">>
                   ELSE /\ p.conn = "closed"
                        /\ p.io[1] = "dial"
                        /\ p.io[Len(p.io)] = "close"
                        /\ Closes(p) = 1

\* a session has returned on a failed decode at its second attempt, its
\* connection closed
C19_Witness ==
    \E d \in TaskIds : \E k \in NsIds :
        LET p == prober[d][k]
        IN /\ HasReturned(p)
           /\ p.exit = "decode"
           /\ p.conn = "closed"
           /\ p.io = <<"dial", "write", "read", "unpack", "write", "read", "unpackErr",
                       "close">>

-----------------------------------------------------------------------------
(* C20 *)

\* C20: when the sweep has returned, and so when the enumeration of the
\* domain has ended, none of the TLS connections it opened is still open
C20_NoOpenAfterSweep ==
    \A d \in TaskIds : SweepReturned(d) => task[d].open = 0

=============================================================================
